---- MODULE Spec2Model ----
(***************************************************************************)
(* Model of the Mastermind integer-programming notebook                    *)
(* (src/victor-bitaraes-A1-mastermind.ipynb): the class Mastermind with    *)
(* its methods add_restr and new_guess, the interactive driver loop and    *)
(* the Project Euler 185 five-digit example.                               *)
(*                                                                         *)
(* The MIP solver (OR-Tools / CBC) is a library outside the repository.    *)
(* It is modelled by its contract: Solve() leaves a 0/1 point satisfying   *)
(* every added constraint when one exists, which one is the solver's       *)
(* choice; solving an unchanged model again gives the same point; when no  *)
(* point exists no solution value is available.                            *)
(*                                                                         *)
(* Positions are 1..n here (0..n-1 in the Python code).                    *)
(***************************************************************************)
EXTENDS Integers, Sequences, FiniteSets

VARIABLES
    digits,            \* self.digits
    length,            \* self.length
    restr,             \* the constraints added to self.solver by add_restr
    sol,               \* result status and solution values of self.solver
    ret,               \* what the most recent call returned (or raised)
    infeasibleRaises,  \* build of the library: solution_value() raises, or gives 0.0, when no solution exists
    pswd, hit,         \* arguments of the latest add_restr / the driver's locals
    pc,                \* position of the caller: "api", or a driver position
    terminated,        \* the driver's flag
    nGuess,            \* history: new_guess calls since the latest successful add_restr
    kept               \* history: the suggestion returned just before the latest add_restr satisfies that constraint

vars == <<digits, length, restr, sol, ret, infeasibleRaises, pswd, hit, pc, terminated, nGuess, kept>>

\* ------------------------------------------------------------------ bounds
MaxD == 2
MaxN == 2
MaxRestr == 2
MaxRepeat == 2

\* ------------------------------------------------------------- data helpers
Symbols(d) == 0 .. (d - 1)
Positions(n) == 1 .. n
Assignments(d, n) == [Positions(n) -> Symbols(d)]

\* self.X: one 0/1 variable per (symbol i, position j)
ZeroX(d, n) == [i \in Symbols(d) |-> [j \in Positions(n) |-> 0]]
Indicator(A, d, n) == [i \in Symbols(d) |-> [j \in Positions(n) |-> IF A[j] = i THEN 1 ELSE 0]]

Unsolved == [status |-> "NOT_SOLVED", X |-> ZeroX(digits, length)]

RetInit == [kind |-> "init", val |-> <<>>]
RetNone == [kind |-> "None", val |-> <<>>]
RetFalse == [kind |-> "False", val |-> <<>>]
RetStr(s) == [kind |-> "str", val |-> s]
RetRaised(e) == [kind |-> e, val |-> <<>>]

\* Python truthiness of a new_guess result, as tested by the driver (`if suggestion:`)
Truthy(r) == r.kind = "str" /\ r.val # <<>>
Searched == ret.kind \in {"str", "False"}

\* --------------------------------------------------------------- add_restr
\* sum(X[int(pswd[j])][j] for j in range(length)), for the 0/1 point of assignment A
RECURSIVE RestrSum(_, _, _)
RestrSum(A, p, j) ==
    IF j = 0 THEN 0
    ELSE RestrSum(A, p, j - 1) + (IF A[j] = p[j] THEN 1 ELSE 0)

\* the exception raised while the generator of add_restr is consumed, if any
AddError(p, d, n) ==
    LET bad == {j \in Positions(n) : j > Len(p) \/ p[j] \notin Symbols(d)}
        j0 == CHOOSE j \in bad : \A k \in bad : j <= k
    IN  IF bad = {} THEN "none"
        ELSE IF j0 > Len(p) THEN "IndexError" ELSE "KeyError"

\* add_restr with the right-hand side off by one
add_restrOffByOne(p, h) ==
    IF AddError(p, digits, length) = "none"
    THEN /\ restr' = Append(restr, [pswd |-> SubSeq(p, 1, length), hit |-> h + 1])
         /\ sol' = Unsolved
         /\ ret' = RetNone
    ELSE /\ restr' = restr
         /\ sol' = sol
         /\ ret' = RetRaised(AddError(p, digits, length))

\* add_restr rebuilding the constraint list instead of extending it
add_restrReplace(p, h) ==
    IF AddError(p, digits, length) = "none"
    THEN /\ restr' = <<[pswd |-> SubSeq(p, 1, length), hit |-> h]>>
         /\ sol' = Unsolved
         /\ ret' = RetNone
    ELSE /\ restr' = restr
         /\ sol' = sol
         /\ ret' = RetRaised(AddError(p, digits, length))

add_restr(p, h) ==
    IF AddError(p, digits, length) = "none"
    THEN /\ restr' = Append(restr, [pswd |-> SubSeq(p, 1, length), hit |-> h])
         /\ sol' = Unsolved
         /\ ret' = RetNone
    ELSE /\ restr' = restr
         /\ sol' = sol
         /\ ret' = RetRaised(AddError(p, digits, length))

\* --------------------------------------------------------------- new_guess
\* the solver given every constraint but the latest
FeasibleStale(d, n, R) ==
    {A \in Assignments(d, n) : \A k \in 1 .. (Len(R) - 1) : RestrSum(A, R[k].pswd, n) = R[k].hit}

\* the 0/1 points with every column summing to 1 that satisfy every added constraint
Feasible(d, n, R) ==
    {A \in Assignments(d, n) : \A k \in 1 .. Len(R) : RestrSum(A, R[k].pswd, n) = R[k].hit}

\* self.solver.Solve()
SolveOutcomes ==
    IF sol.status \in {"OPTIMAL", "INFEASIBLE"} THEN {sol}
    ELSE LET F == Feasible(digits, length, restr)
         IN  IF F = {} THEN {[status |-> "INFEASIBLE", X |-> ZeroX(digits, length)]}
             ELSE {[status |-> "OPTIMAL", X |-> Indicator(A, digits, length)] : A \in F}

\* X[i][j].solution_value()
SolutionValue(S, i, j) == IF S.status = "OPTIMAL" THEN S.X[i][j] ELSE 0

\* the test `> 0.5` inverted
RECURSIVE ColumnTokensInverted(_, _, _, _)
ColumnTokensInverted(S, j, i, d) ==
    IF i >= d THEN <<>>
    ELSE (IF 2 * SolutionValue(S, i, j) < 1 THEN <<i>> ELSE <<>>) \o ColumnTokensInverted(S, j, i + 1, d)

\* the two loops building the suggestion string; a token ' i' is modelled by i
RECURSIVE ColumnTokens(_, _, _, _)
ColumnTokens(S, j, i, d) ==
    IF i >= d THEN <<>>
    ELSE (IF 2 * SolutionValue(S, i, j) > 1 THEN <<i>> ELSE <<>>) \o ColumnTokens(S, j, i + 1, d)

\* str(i) replaced by str(i + 1): symbols printed from 1
RECURSIVE TokensFromOne(_, _, _, _)
TokensFromOne(S, j, d, n) ==
    IF j > n THEN <<>>
    ELSE [k \in 1 .. Len(ColumnTokens(S, j, 0, d)) |-> ColumnTokens(S, j, 0, d)[k] + 1]
         \o TokensFromOne(S, j + 1, d, n)

\* the outer loop stopping one position early
RECURSIVE TokensShort(_, _, _, _)
TokensShort(S, j, d, n) ==
    IF j >= n THEN <<>>
    ELSE ColumnTokens(S, j, 0, d) \o TokensShort(S, j + 1, d, n)

RECURSIVE Tokens(_, _, _, _)
Tokens(S, j, d, n) ==
    IF j > n THEN <<>>
    ELSE ColumnTokens(S, j, 0, d) \o Tokens(S, j + 1, d, n)

GuessResult(S) ==
    IF infeasibleRaises /\ S.status # "OPTIMAL" THEN RetFalse
    ELSE RetStr(Tokens(S, 1, digits, length))

\* new_guess leaving the solver as if the model had changed, so the next call solves afresh
new_guessResolve ==
    /\ \E S \in SolveOutcomes :
          /\ sol' = [S EXCEPT !.status = "NOT_SOLVED"]
          /\ ret' = GuessResult(S)
    /\ restr' = restr

new_guess ==
    /\ \E S \in SolveOutcomes :
          /\ sol' = S
          /\ ret' = GuessResult(S)
    /\ restr' = restr

\* -------------------------------------------------------------- the inputs
PswdInputs(d, n) ==
    [Positions(n) -> 0 .. d]
    \cup [Positions(n - 1) -> Symbols(d)]
    \cup {Append(p, 0) : p \in Assignments(d, n)}

HitInputs(n) == ((-1) .. n) \cup {5}

KeptAfter(p, h) ==
    IF AddError(p, digits, length) = "none"
    THEN Truthy(ret) /\ Len(ret.val) = length /\ RestrSum(ret.val, p, length) = h
    ELSE kept

NGuessAfter(p) == IF AddError(p, digits, length) = "none" THEN 0 ELSE nGuess

\* ---------------------------------------------------------- free use of the class
Init ==
    /\ digits \in 1 .. MaxD
    /\ length \in 1 .. MaxN
    /\ restr = <<>>
    /\ sol = Unsolved
    /\ ret = RetInit
    /\ infeasibleRaises \in BOOLEAN
    /\ pswd = <<>>
    /\ hit = 0
    /\ pc = "api"
    /\ terminated = FALSE
    /\ nGuess = 0
    /\ kept = FALSE

ApiAdd ==
    /\ pc = "api"
    /\ Len(restr) < MaxRestr
    /\ \E p \in PswdInputs(digits, length), h \in HitInputs(length) :
          /\ add_restr(p, h)
          /\ pswd' = p
          /\ hit' = h
          /\ kept' = KeptAfter(p, h)
          /\ nGuess' = NGuessAfter(p)
    /\ UNCHANGED <<digits, length, infeasibleRaises, pc, terminated>>

ApiGuess ==
    /\ pc = "api"
    /\ nGuess < MaxRepeat
    /\ new_guess
    /\ nGuess' = nGuess + 1
    /\ UNCHANGED <<digits, length, infeasibleRaises, pswd, hit, pc, terminated, kept>>

Next == ApiAdd \/ ApiGuess

Spec == Init /\ [][Next]_vars

\* ------------------------------------------------- a solver run that ends abnormally
\* Solve() ends without a solution for a reason other than infeasibility (status
\* ABNORMAL / NOT_SOLVED, or an exception inside the try block); new_guess reads
\* the solution values, or lands in its except branch, exactly as it does otherwise.
Aborted == [status |-> "ABNORMAL", X |-> ZeroX(digits, length)]

ApiGuessFault ==
    /\ pc = "api"
    /\ nGuess < MaxRepeat
    /\ sol.status = "NOT_SOLVED"
    /\ sol' = Aborted
    /\ ret' = GuessResult(Aborted)
    /\ nGuess' = nGuess + 1
    /\ UNCHANGED <<digits, length, restr, infeasibleRaises, pswd, hit, pc, terminated, kept>>

NextFault == ApiAdd \/ ApiGuess \/ ApiGuessFault

SpecFault == Init /\ [][NextFault]_vars

\* ------------------------------------------------------ the interactive driver loop
InitDriver ==
    /\ digits \in 1 .. MaxD
    /\ length \in 1 .. MaxN
    /\ restr = <<>>
    /\ sol = Unsolved
    /\ ret = RetInit
    /\ infeasibleRaises \in BOOLEAN
    /\ pswd = <<>>
    /\ hit = 0
    /\ pc = "read"
    /\ terminated = FALSE
    /\ nGuess = 0
    /\ kept = FALSE

\* the driver without the `hit >= master.length` test
DriverReadNoWinTest ==
    /\ pc = "read"
    /\ Len(restr) < MaxRestr
    /\ \E p \in PswdInputs(digits, length), h \in HitInputs(length) :
          /\ pswd' = p
          /\ hit' = h
          /\ pc' = "add"
    /\ UNCHANGED <<digits, length, restr, sol, ret, infeasibleRaises, terminated, nGuess, kept>>

\* pswd = input().split(); hit = int(input()); if hit >= master.length: break
DriverRead ==
    /\ pc = "read"
    /\ Len(restr) < MaxRestr
    /\ \E p \in PswdInputs(digits, length), h \in HitInputs(length) :
          /\ pswd' = p
          /\ hit' = h
          /\ pc' = IF h >= length THEN "won" ELSE "add"
    /\ UNCHANGED <<digits, length, restr, sol, ret, infeasibleRaises, terminated, nGuess, kept>>

\* master.add_restr(pswd, hit); an exception it raises ends the program
DriverAdd ==
    /\ pc = "add"
    /\ add_restr(pswd, hit)
    /\ kept' = KeptAfter(pswd, hit)
    /\ nGuess' = NGuessAfter(pswd)
    /\ pc' = IF AddError(pswd, digits, length) = "none" THEN "guess" ELSE "crashed"
    /\ UNCHANGED <<digits, length, infeasibleRaises, pswd, hit, terminated>>

\* suggestion = master.new_guess(); if suggestion: ... else: terminated = True
DriverGuess ==
    /\ pc = "guess"
    /\ new_guess
    /\ nGuess' = nGuess + 1
    /\ terminated' = ~Truthy(ret')
    /\ pc' = IF Truthy(ret') THEN "read" ELSE "done"
    /\ UNCHANGED <<digits, length, infeasibleRaises, pswd, hit, kept>>

NextDriver == DriverRead \/ DriverAdd \/ DriverGuess

SpecDriver == InitDriver /\ [][NextDriver]_vars

\* ------------------------------------------- the five-digit Project Euler 185 example
EulerGuess ==
    << <<9, 0, 3, 4, 2>>, <<7, 0, 7, 9, 4>>, <<3, 9, 4, 5, 8>>,
       <<3, 4, 1, 0, 9>>, <<5, 1, 5, 4, 5>>, <<1, 2, 5, 3, 1>> >>
EulerHit == <<2, 0, 2, 1, 2, 1>>
EulerAnswer == <<3, 9, 5, 4, 2>>

InitEuler ==
    /\ digits = 10
    /\ length = 5
    /\ restr = <<>>
    /\ sol = Unsolved
    /\ ret = RetInit
    /\ infeasibleRaises \in BOOLEAN
    /\ pswd = <<>>
    /\ hit = 0
    /\ pc = "read"
    /\ terminated = FALSE
    /\ nGuess = 0
    /\ kept = FALSE

\* the driver loop reading the rows of the example, in order
EulerRead ==
    /\ pc = "read"
    /\ Len(restr) < Len(EulerGuess)
    /\ LET k == Len(restr) + 1
       IN  /\ pswd' = EulerGuess[k]
           /\ hit' = EulerHit[k]
           /\ pc' = IF EulerHit[k] >= length THEN "won" ELSE "add"
    /\ UNCHANGED <<digits, length, restr, sol, ret, infeasibleRaises, terminated, nGuess, kept>>

NextEuler == EulerRead \/ DriverAdd \/ DriverGuess

SpecEuler == InitEuler /\ [][NextEuler]_vars

\* ======================================================================= the claims
\* number of positions where assignment A and guess g agree
Matches(A, g) == Cardinality({j \in 1 .. length : A[j] = g[j]})

\* the assignments in [0, d-1]^n that satisfy every stored constraint
Region(R) ==
    {A \in Assignments(digits, length) : \A k \in 1 .. Len(R) : Matches(A, R[k].pswd) = R[k].hit}

LexLess(A, B) ==
    \E j \in 1 .. length : A[j] < B[j] /\ \A i \in 1 .. (j - 1) : A[i] = B[i]

LexMin(F) == CHOOSE A \in F : \A B \in F : A = B \/ LexLess(A, B)

\* C1: whenever new_guess returns a suggestion, it has exactly n symbols, each in
\* [0, d-1], and it agrees with every stored guess in exactly the stored number of
\* positions.
C1_Soundness ==
    Truthy(ret) =>
        /\ Len(ret.val) = length
        /\ \A j \in 1 .. length : ret.val[j] \in Symbols(digits)
        /\ \A k \in 1 .. Len(restr) : Matches(ret.val, restr[k].pswd) = restr[k].hit

C1_Witness ==
    /\ Truthy(ret)
    /\ Len(restr) >= 2
    /\ restr[1] # restr[2]

\* C2: after new_guess, the result is the no-suggestion value (False or the empty
\* string, both falsy) exactly when no assignment satisfies all stored constraints;
\* in particular for d=2, n=1 with ([0],1) and ([0],0).
C2_Example ==
    /\ digits = 2
    /\ length = 1
    /\ restr = <<[pswd |-> <<0>>, hit |-> 1], [pswd |-> <<0>>, hit |-> 0]>>
    /\ Searched

C3_StoredValid ==
    \A k \in 1 .. Len(restr) :
        /\ Len(restr[k].pswd) = length
        /\ \A j \in 1 .. length : restr[k].pswd[j] \in Symbols(digits)
        /\ restr[k].hit \in 0 .. length

\* C4 (as claimed): when some assignment is feasible, new_guess returns the
\* lexicographically smallest feasible one (all zeros when nothing is stored).
C4_LexSmallest ==
    (Searched /\ Region(restr) # {}) =>
        (Truthy(ret) /\ ret.val = LexMin(Region(restr)))

\* C4 (amended): when some assignment is feasible, new_guess returns a feasible
\* assignment (with nothing stored: an assignment in [0, d-1]^n), which need not be
\* the lexicographically smallest.
C4_SomeFeasible ==
    /\ (Searched /\ Region(restr) # {}) => (Truthy(ret) /\ ret.val \in Region(restr))
    /\ (Searched /\ restr = <<>>) => (Truthy(ret) /\ ret.val \in Assignments(digits, length))

C4_Witness ==
    /\ Searched
    /\ Cardinality(Region(restr)) >= 2
    /\ Truthy(ret)
    /\ ret.val # LexMin(Region(restr))

C6_Monotone ==
    /\ []((Searched /\ kept) => Truthy(ret))
    /\ [][Region(restr') \subseteq Region(restr)]_vars

C6_Witness ==
    /\ Searched
    /\ kept
    /\ Truthy(ret)
    /\ Len(restr) >= 2

\* C7: with d=10, n=5 and the six constraints of the example added in order,
\* new_guess returns 3 9 5 4 2, and that is the only assignment satisfying all six.
EulerRestr == [k \in 1 .. Len(EulerGuess) |-> [pswd |-> EulerGuess[k], hit |-> EulerHit[k]]]

C7_Euler ==
    /\ Len(restr) = Len(EulerGuess) => (restr = EulerRestr /\ Region(restr) = {EulerAnswer})
    /\ (Len(restr) = Len(EulerGuess) /\ Searched) => ret = RetStr(EulerAnswer)

C7_Witness ==
    /\ digits = 10
    /\ Len(restr) = Len(EulerGuess)
    /\ Truthy(ret)

\* C8 (as claimed): a solver run that ends abnormally is never reported with the
\* no-suggestion value; that value means the constraints are infeasible.
C8_FaultsKeptApart ==
    (Searched /\ ~Truthy(ret)) => (sol.status # "ABNORMAL" /\ Region(restr) = {})

\* C9: a successful add_restr appends exactly the constraint of the given pair (the
\* first n symbols of the guess, the match count) at the end; every other call
\* leaves the list as it is; d and n never change.
C9_AppendOnly ==
    [][/\ digits' = digits
       /\ length' = length
       /\ ret'.kind = "None" =>
              restr' = Append(restr, [pswd |-> SubSeq(pswd', 1, length), hit |-> hit'])
       /\ ret'.kind # "None" => restr' = restr]_vars

C9_Witness ==
    /\ Len(restr) >= 2
    /\ Searched
    /\ nGuess >= 2

\* C10: in the driver loop, input is read only after exactly one new_guess followed
\* the latest add_restr; add_restr is followed by new_guess; no constraint with
\* hit >= n is ever added; a falsy new_guess result ends the loop and no constraint
\* is added after it.
C10_DriverProtocol ==
    /\ [](pc = "read" => (restr = <<>> \/ (nGuess = 1 /\ Truthy(ret))))
    /\ [](\A k \in 1 .. Len(restr) : restr[k].hit < length)
    /\ [](terminated <=> (pc = "done"))
    /\ [](pc = "done" => (Searched /\ ~Truthy(ret)))
    /\ [][/\ pc = "add" => pc' \in {"guess", "crashed"}
          /\ pc = "guess" => pc' \in {"read", "done"}
          /\ (terminated \/ (Searched /\ ~Truthy(ret))) => restr' = restr]_vars

C10_Witness ==
    /\ terminated
    /\ Len(restr) >= 2
    /\ nGuess = 1

====
